---- MODULE Spec2Model ----
(***************************************************************************)
(* Model of the asynchronous log-delivery core of go-kit's logger package  *)
(* (AsyncWriter: bounded channel queue, one background worker goroutine,   *)
(* drop-on-full, graceful Close).                                          *)
(*                                                                         *)
(* Every goroutine is a process with a program counter.  A step of the     *)
(* model is one shared-memory operation of the Go code (a critical section *)
(* of aw.mu, a channel operation with the atomic add of its default case,  *)
(* a context cancel, a WaitGroup operation, the call of the inner writer,  *)
(* the return of the inner writer) together with the goroutine-local code  *)
(* that follows it.  The worker blocking in its select is a step too: a    *)
(* send hands its entry to a receiver only when one is blocked.  The two critical sections of aw.mu hold no blocking   *)
(* operation and are each one step.                                        *)
(*                                                                         *)
(* The synchronous logger facade (New, WithFields, WithContext, Prefix and *)
(* the four level methods) is a second state machine over its own variables: the    *)
(* loggers made so far, the backing arrays of their []Field slices, and    *)
(* the last log call with the entries Output received in it.               *)
(***************************************************************************)
EXTENDS Integers, Sequences, FiniteSets

\* ------------------------------------------------------------------ bounds

\* bufferSize passed to NewAsyncWriter (capacity of the channel) wherever the
\* construction is not itself the subject.
QueueCap == 2

\* Number of Write calls made in all, by whichever producers.
MaxWrites == 4

\* Number of Close calls the closing goroutine makes, one after the other.
MaxCloses == 2

\* The goroutines that call Write.
Producers == {"p1", "p2"}

\* The goroutines that may call Close.
Closers == {"c1", "c2"}

None == "none"

\* The entry a producer passes to its n-th Write call.
Entry(p, n) == [p |-> p, n |-> n]

\* The worker holds no entry.
NoEntry == Entry(None, 0)

\* Results of the inner writer's Write (its error: nil or not).
InnerResults == {"nil", "err"}

VARIABLES
    queue,      \* aw.queue: the entries buffered in the channel, oldest first
    closed,     \* aw.closed
    ctxDone,    \* aw.ctx is cancelled (aw.cancel was called)
    wg,         \* the counter of aw.wg
    dropped,    \* aw.dropped
    wpc,        \* worker goroutine: "unstarted" | "loop" | "select" | "recvd" | "write" | "drain" | "drainRecvd" | "drainWrite" | "returning" | "exited"
    held,       \* the entry the worker has received and not yet passed to the inner writer (NoEntry: none)
    ppc,        \* producer p inside Write: "idle" | "checked" | "sync" | "sent" | "default" | "counted"
    pclosed,    \* Write's local variable closed
    pn,         \* number of Write calls p has started
    pret,       \* what p's last completed Write returned: None | "nil" | "err"
    pinner,     \* what the inner Write that p last called itself returned
    cpc,        \* closer c inside Close: "idle" | "cancel" | "wait"
    cleft,      \* number of Close calls c has still to make
    cret,       \* what c's last completed Close returned: None | "nil"
    sink,       \* the inner writer: the sequence of its Write invocations [e, by]
    wlog,       \* history: the completed Write calls [e, sawClosed, full, open, how]
    clog,       \* history: per closer [did, after] of its last Close call (see CloseCheck)
    drained,    \* history: the Close call that closed the writer has returned
    wfail,      \* history, kept when wfail.on: the inner Write invocation (index in sink) that first returned an error to the worker, 0 if none
    bufferSize, \* the bufferSize argument NewAsyncWriter was called with
    newResult   \* how NewAsyncWriter ended: "ok" | "panic" ("none": it was not called)

\* The logger facade (New, WithFields, Prefix, Debug/Info/Warn/Error).
VARIABLES
    cfg,        \* the Config passed to New
    lnew,       \* how New ended: "ok" | "error" ("none": New was not called)
    heap,       \* the backing arrays of the []Field slices, each as long as its capacity
    loggers,    \* the loggers made so far: [fields (a slice), prefix, context]; loggers[1] is New's
    born,       \* history: per logger the persistent fields and prefix texts it was made with, its parent and the call that made it
    last        \* history: the last Debug/Info/Warn/Error call and the entries Output received in it

facadeVars == <<cfg, lnew, heap, loggers, born, last>>

\* The middleware package: serving one request through Chain(...)(final).
VARIABLES
    middlewares, \* the middlewares passed to Chain, in the order given
    final,       \* the handler the chain is applied to
    wrapped,     \* the handler Chain(middlewares...)(final) returned
    cur,         \* the handler whose ServeHTTP is to run next (<<>>: the innermost call has returned)
    stack,       \* the middlewares inside their next.ServeHTTP call, outermost first
    callOrder    \* the events of the request: [m, part], part "before" | "handler" | "after"

chainVars == <<middlewares, final, wrapped, cur, stack, callOrder>>

\* The middleware package: one request served through Timeout(d, opts...)(next).
VARIABLES
    tcfg,        \* the TimeoutConfig after the options: [StatusCode, Message]
    tctx,        \* ctx of context.WithTimeout: "live" | "deadline" | "canceled"
    done,        \* the number of values in the channel done (capacity 1)
    wroteHeader, \* rw.wroteHeader
    mpc,         \* the goroutine of ServeHTTP: "select" | "check" | "writeHeader" | "write" | "returned"
    hpc,         \* the handler goroutine: "run" | "header" | "body" | "send" | "exited"
    hcall,       \* the rw call the handler goroutine is in: [code, write]
    hops,        \* the number of rw calls the handler has made
    resp,        \* the calls the underlying ResponseWriter received: [op, arg, by, late]
    elapsed      \* history: the deadline passed while next.ServeHTTP had not returned

timeoutVars == <<tcfg, tctx, done, wroteHeader, mpc, hpc, hcall, hops, resp, elapsed>>

\* The config package: one call of loader.Load.
VARIABLES
    lconf,       \* the loader's Config: [FilePath, ValidateAfterLoad]
    environ,     \* the environment: per field the value of its variable (<<>>, the empty string, when unset)
    file,        \* the file at FilePath: [exists, readable, doc] and per field [set, fits, value]
    tags,        \* per field the default of its config tag (<<>> when it has none)
    target,      \* the struct Load fills: per field its value
    lpc,         \* Load: "defaults" | "file" | "env" | "validate" | "returned"
    lerr         \* the error Load returned, as the messages it wraps, outermost first (<<>>: nil, and while Load runs)

loaderVars == <<lconf, environ, file, tags, target, lpc, lerr>>

\* The packages beside the logger.
otherVars == <<chainVars, timeoutVars, loaderVars>>

\* The arguments and the outcome of NewAsyncWriter.
ctorVars == <<bufferSize, newResult>>

\* What no step of the AsyncWriter changes.
restVars == <<ctorVars, facadeVars, otherVars>>

vars == <<queue, closed, ctxDone, wg, dropped, wpc, held, ppc, pclosed, pn, pret,
          pinner, cpc, cleft, cret, sink, wlog, clog, drained, wfail, restVars>>

\* What the steps of Write and of the worker leave alone.
closeVars == <<cpc, cleft, cret, clog, drained>>

awVars == <<queue, closed, ctxDone, wg, dropped>>

\* Every variable of the AsyncWriter.
writerVars == <<awVars, wpc, held, ppc, pclosed, pn, pret, pinner, closeVars, sink,
                wlog, wfail, ctorVars>>

\* What no step of the facade changes.
asyncVars == <<writerVars, otherVars>>

\* The variables of the logger package.
loggerVars == <<writerVars, facadeVars>>

\* ------------------------------------------------- logger facade: values

\* Level, an int: the four constants of the const block.
DebugLevel == 0
InfoLevel == 1
WarnLevel == 2
ErrorLevel == 3

Levels == DebugLevel .. ErrorLevel

\* Number of loggers made in all (New's and those of WithFields and Prefix).
MaxLoggers == 3

\* Field{Key, Value}.
Field(k, v) == [Key |-> k, Value |-> v]

\* The zero Field, which fills the unused cells of a backing array.
ZeroField == Field("", "")

\* The fields given to WithFields, one per call.
WithPool == {Field("a", "1"), Field("b", "1")}

\* The call-site fields of a log call: none, or one whose key a persistent
\* field may have too.
CallFields == {<<>>, <<Field("a", "2")>>}

\* The prefix texts given to Prefix.
PrefixTexts == {"[A]", "[B]"}

\* A slice header: backing array (0: none, the nil slice) and length.  Its
\* capacity is the length of the array, every slice here starting at cell 1.
Slice(a, n) == [arr |-> a, len |-> n]

\* cap(s).
Cap(s) == IF s.arr = 0 THEN 0 ELSE Len(heap[s.arr])

\* s[0:len(s)], what a range loop over the slice reads.
Contents(s) == [i \in 1 .. s.len |-> heap[s.arr][i]]

\* The error values passed to Error: nil, an error that does not unwrap, an
\* error that unwraps to a cause.
NilErr == [nil |-> TRUE, msg |-> "", wraps |-> FALSE, cause |-> ""]

PlainErr == [nil |-> FALSE, msg |-> "test error", wraps |-> FALSE, cause |-> ""]

WrappedErr == [nil |-> FALSE, msg |-> "outer: inner", wraps |-> TRUE, cause |-> "inner"]

Errs == {NilErr, PlainErr, WrappedErr}

\* The values a context holds under a key: none, a string, something else.
CtxNone == [kind |-> "nil", s |-> ""]

CtxString(x) == [kind |-> "string", s |-> x]

CtxInt == [kind |-> "int", s |-> "42"]

\* A context.Context by the values of its three well-known keys; nil is the
\* nil interface value passed as ctx.
Ctx(isNil, t, sp, r) == [nil |-> isNil, trace_id |-> t, span_id |-> sp, request_id |-> r]

Background == Ctx(FALSE, CtxNone, CtxNone, CtxNone)

NilCtx == Ctx(TRUE, CtxNone, CtxNone, CtxNone)

\* The context of TestLogger_WithContext: a string under each key.
TraceCtx == Ctx(FALSE, CtxString("trace-123"), CtxString("span-456"), CtxString("req-789"))

\* The contexts passed to the log calls.
Contexts ==
    { NilCtx,
      Background,
      TraceCtx,
      Ctx(FALSE, CtxInt, CtxNone, CtxInt) }

\* The contexts passed to WithContext.
ChildContexts == {NilCtx, TraceCtx}

\* ctx.Value(key).
Value(ctx, key) == ctx[key]

\* The message of every log call, and a message as the sequence of its parts.
Msg == "msg"

\* The Fields slices a caller puts in Config, with the heap that holds them:
\* nil, or one field in a backing array of 1 cell or of 2 cells (a slice
\* with spare capacity, as append or make([]Field, 1, 2) leaves it).
UserFields ==
    { [heap |-> <<>>, fields |-> Slice(0, 0)],
      [heap |-> << <<Field("a", "0")>> >>, fields |-> Slice(1, 1)],
      [heap |-> << <<Field("a", "0"), ZeroField>> >>, fields |-> Slice(1, 1)] }

\* The Config values New is called with: Level, Output (nil or the test's
\* mock writer), EnableTraceCorrelation, AsyncEnabled and Fields.
Configs ==
    [Level : Levels, Output : {"nil", "mock"}, EnableTraceCorrelation : BOOLEAN,
     AsyncEnabled : BOOLEAN, Fields : {u.fields : u \in UserFields}]

\* No logger facade: New has not been called.
NoCall ==
    [logger |-> 0, level |-> DebugLevel, ctx |-> Background, err |-> NilErr,
     fields |-> <<>>, persistent |-> <<>>, written |-> <<>>]

NoFacade ==
    /\ cfg = [Level |-> DebugLevel, Output |-> "nil", EnableTraceCorrelation |-> FALSE,
              AsyncEnabled |-> FALSE, Fields |-> Slice(0, 0)]
    /\ lnew = "none"
    /\ heap = <<>>
    /\ loggers = <<>>
    /\ born = <<>>
    /\ last = NoCall

\* No handler has been built by Chain.
NoChain ==
    /\ middlewares = <<>>
    /\ final = "none"
    /\ wrapped = <<>>
    /\ cur = <<>>
    /\ stack = <<>>
    /\ callOrder = <<>>

NoHCall == [code |-> 0, write |-> FALSE]

\* No request is served through Timeout.
NoTimeout ==
    /\ tcfg = [StatusCode |-> 0, Message |-> ""]
    /\ tctx = "none"
    /\ done = 0
    /\ wroteHeader = FALSE
    /\ mpc = "none"
    /\ hpc = "none"
    /\ hcall = NoHCall
    /\ hops = 0
    /\ resp = <<>>
    /\ elapsed = FALSE

\* loader.Load is not called.
NoLoader ==
    /\ lconf = [FilePath |-> <<>>, ValidateAfterLoad |-> FALSE]
    /\ environ = <<>>
    /\ file = <<>>
    /\ tags = <<>>
    /\ target = <<>>
    /\ lpc = "none"
    /\ lerr = <<>>

NoOther == NoChain /\ NoTimeout /\ NoLoader

\* ------------------------------------------------------------ construction

\* NewAsyncWriter's fields: empty channel, not closed, context not cancelled,
\* nothing written or dropped yet.
\* calls[c] is the number of Close calls goroutine c is going to make.
NewFields(calls) ==
    /\ queue = <<>>
    /\ closed = FALSE
    /\ ctxDone = FALSE
    /\ dropped = 0
    /\ held = NoEntry
    /\ ppc = [p \in Producers |-> "idle"]
    /\ pclosed = [p \in Producers |-> FALSE]
    /\ pn = [p \in Producers |-> 0]
    /\ pret = [p \in Producers |-> None]
    /\ pinner = [p \in Producers |-> None]
    /\ cpc = [c \in Closers |-> "idle"]
    /\ cleft = calls
    /\ cret = [c \in Closers |-> None]
    /\ sink = <<>>
    /\ wlog = {}
    /\ clog = [c \in Closers |-> [did |-> FALSE, after |-> FALSE]]
    /\ drained = FALSE

\* The history of the worker's failed inner Write calls is not kept.
Untracked == [on |-> FALSE, at |-> 0]

\* The history is kept and the inner writer has not yet returned an error to
\* the worker.
NoFailure == [on |-> TRUE, at |-> 0]

\* NewAsyncWriter(writer, QueueCap) has returned: wg.Add(1) done, its worker
\* goroutine started and not yet at its select.
Started(calls) ==
    /\ NewFields(calls)
    /\ bufferSize = QueueCap
    /\ newResult = "ok"
    /\ wg = 1
    /\ wpc = "loop"
    /\ NoFacade
    /\ NoOther

\* The started AsyncWriter, the worker's failures not recorded.
InitWith(calls) ==
    /\ Started(calls)
    /\ wfail = Untracked

\* The values of bufferSize NewAsyncWriter is called with: negative, zero,
\* positive.
BufferSizes == (0 - 1) .. QueueCap

\* NewAsyncWriter(writer, b) for any b, lines 272-286.  The code does not
\* look at b before make(chan *LogEntry, b): a negative b panics there
\* (makechan: size out of range) before wg.Add(1) and `go aw.worker()`, and
\* no AsyncWriter is returned; b = 0 gives an unbuffered channel.  After a
\* successful construction the worker goroutine is started and not yet at
\* its select.
CapInit ==
    /\ NewFields([c \in Closers |-> IF c = "c1" THEN MaxCloses ELSE 0])
    /\ wfail = Untracked
    /\ bufferSize \in BufferSizes
    /\ IF bufferSize < 0
        THEN newResult = "panic" /\ wg = 0 /\ wpc = "unstarted"
        ELSE newResult = "ok" /\ wg = 1 /\ wpc = "loop"
    /\ NoFacade
    /\ NoOther

\* No AsyncWriter: NewAsyncWriter has not been called.
NoAsyncWriter ==
    /\ NewFields([c \in Closers |-> 0])
    /\ wfail = Untracked
    /\ bufferSize = 0
    /\ newResult = "none"
    /\ wg = 0
    /\ wpc = "unstarted"

\* One goroutine calls Close, MaxCloses times in a row.
Init == InitWith([c \in Closers |-> IF c = "c1" THEN MaxCloses ELSE 0])

\* ------------------------------------------------------------- primitives

\* Mutant of ChanTrySend: the send never finds the channel full.
ChanTrySend_Unbounded(q, e) == [ok |-> TRUE, handed |-> FALSE, q |-> Append(q, e)]

\* cap(aw.queue): make(chan *LogEntry, bufferSize).
QueueCapacity == bufferSize

\* A receiver is blocked on the channel: the worker is blocked in the select
\* of its loop and aw.cancel() has not been called.  (A cancel resolves the
\* blocked select to its ctx.Done case, after which a send finds no receiver;
\* drain's select has a default case and never blocks.)
ReceiverWaiting == wpc = "select" /\ ~ctxDone

\* The channel cannot take an entry: no receiver is blocked on it and its
\* buffer has no room (an unbuffered channel has none).
ChanFull(q) == ~ReceiverWaiting /\ Len(q) >= QueueCapacity

\* A non-blocking send on the channel (select with a default case).  If a
\* receiver is blocked, the entry is handed to it and the buffer, which is
\* empty then, stays as it is; otherwise the entry goes in the buffer if it
\* has room; otherwise the send does not happen.
ChanTrySend(q, e) ==
    IF ReceiverWaiting THEN [ok |-> TRUE, handed |-> TRUE, q |-> q]
    ELSE IF Len(q) < QueueCapacity THEN [ok |-> TRUE, handed |-> FALSE, q |-> Append(q, e)]
    ELSE [ok |-> FALSE, handed |-> FALSE, q |-> q]

\* Mutant of ChanRecv: the newest entry is received first.
ChanRecv_Lifo(q) == [e |-> q[Len(q)], q |-> SubSeq(q, 1, Len(q) - 1)]

\* A receive from the channel when its buffer holds an entry: the oldest one.
ChanRecv(q) == [e |-> Head(q), q |-> Tail(q)]

\* The inner writer's Write is invoked with entry e by goroutine `by`.
InnerInvoke(s, e, by) == Append(s, [e |-> e, by |-> by])

\* The goroutines that are inside the inner writer's Write.
InInner ==
    (IF wpc \in {"write", "drainWrite"} THEN {"worker"} ELSE {})
        \cup {p \in Producers : ppc[p] = "sync"}

\* How many times the inner writer was invoked with entry e.
Deliveries(e) == Cardinality({i \in DOMAIN sink : sink[i].e = e})

\* The worker's current inner Write call: the index in the sink of the last
\* invocation made by the worker.
WorkerInvocation ==
    LET W == {i \in DOMAIN sink : sink[i].by = "worker"} IN
        CHOOSE i \in W : \A j \in W : j <= i

\* The history after the inner Write returned r to the worker: the first
\* invocation that returned an error is kept.
Returned(r) ==
    IF wfail.on /\ wfail.at = 0 /\ r = "err"
        THEN [on |-> TRUE, at |-> WorkerInvocation]
        ELSE wfail

\* The number of Write calls started so far.
WritesStarted == pn["p1"] + pn["p2"]

\* ------------------------------------------------------------------ Write

\* Write, lines 290-293: the call starts; under the read lock the local
\* closed is set from aw.closed.
WriteReadClosed(p) ==
    /\ newResult = "ok"
    /\ ppc[p] = "idle"
    /\ WritesStarted < MaxWrites
    /\ pn' = [pn EXCEPT ![p] = @ + 1]
    /\ pclosed' = [pclosed EXCEPT ![p] = closed]
    /\ ppc' = [ppc EXCEPT ![p] = "checked"]
    /\ UNCHANGED <<restVars, wfail, pinner, awVars, wpc, held, pret, closeVars, sink, wlog>>

\* Write, lines 295-297: the local closed is true, the inner writer's Write
\* is called with the entry on the caller's goroutine.
WriteSync(p) ==
    /\ ppc[p] = "checked"
    /\ pclosed[p]
    /\ sink' = InnerInvoke(sink, Entry(p, pn[p]), p)
    /\ ppc' = [ppc EXCEPT ![p] = "sync"]
    /\ UNCHANGED <<restVars, wfail, pinner, awVars, wpc, held, pclosed, pn, pret, closeVars, wlog>>

\* Mutant of SyncResult: the inner writer's error is discarded.
SyncResult_Swallow(r) == "nil"

\* Write, line 297: `return aw.writer.Write(entry)`.
SyncResult(r) == r

\* Write, line 297: the inner Write returns and Write returns its result.
WriteSyncReturn(p) ==
    /\ ppc[p] = "sync"
    /\ \E r \in InnerResults :
        /\ pinner' = [pinner EXCEPT ![p] = r]
        /\ pret' = [pret EXCEPT ![p] = SyncResult(r)]
    /\ ppc' = [ppc EXCEPT ![p] = "idle"]
    /\ wlog' = wlog \cup {[e |-> Entry(p, pn[p]), sawClosed |-> TRUE,
                           full |-> FALSE, open |-> FALSE, how |-> "sync"]}
    /\ UNCHANGED <<restVars, wfail, awVars, wpc, held, pclosed, pn, closeVars, sink>>

\* The effect of a send on the worker: a blocked worker that is handed the
\* entry holds it and is runnable again.
Handed(s, e) ==
    /\ wpc' = IF s.handed THEN "recvd" ELSE wpc
    /\ held' = IF s.handed THEN e ELSE held

\* Mutant of WriteSelect: a plain blocking send, `aw.queue <- entry` with no
\* default case.
WriteSelect_Blocking(p) ==
    /\ ppc[p] = "checked"
    /\ ~pclosed[p]
    /\ LET s == ChanTrySend(queue, Entry(p, pn[p])) IN
        /\ s.ok
        /\ queue' = s.q
        /\ Handed(s, Entry(p, pn[p]))
    /\ wlog' = wlog \cup {[e |-> Entry(p, pn[p]), sawClosed |-> FALSE,
                           full |-> FALSE, open |-> ~closed, how |-> "enq"]}
    /\ ppc' = [ppc EXCEPT ![p] = "sent"]
    /\ UNCHANGED <<restVars, wfail, pinner, closed, ctxDone, wg, dropped, pclosed, pn, pret,
                   closeVars, sink>>

\* Mutant of WriteSelect: the counter is incremented after both cases of the
\* select.
WriteSelect_CountsAll(p) ==
    /\ ppc[p] = "checked"
    /\ ~pclosed[p]
    /\ LET s == ChanTrySend(queue, Entry(p, pn[p])) IN
        /\ queue' = s.q
        /\ Handed(s, Entry(p, pn[p]))
        /\ wlog' = wlog \cup {[e |-> Entry(p, pn[p]), sawClosed |-> FALSE,
                               full |-> ChanFull(queue),
                               open |-> ~closed,
                               how |-> IF s.ok THEN "enq" ELSE "drop"]}
    /\ ppc' = [ppc EXCEPT ![p] = "default"]
    /\ UNCHANGED <<restVars, wfail, pinner, closed, ctxDone, wg, dropped, pclosed, pn, pret,
                   closeVars, sink>>

\* Write, lines 300-304: the local closed is false; the select with a default
\* case sends the entry if the channel can take it, otherwise takes its
\* default case.  The history records, at this moment, which case ran (how),
\* whether the channel was full (full) and whether aw.closed was still false
\* (open).
WriteSelect(p) ==
    /\ ppc[p] = "checked"
    /\ ~pclosed[p]
    /\ LET s == ChanTrySend(queue, Entry(p, pn[p])) IN
        /\ queue' = s.q
        /\ Handed(s, Entry(p, pn[p]))
        /\ wlog' = wlog \cup {[e |-> Entry(p, pn[p]), sawClosed |-> FALSE,
                               full |-> ChanFull(queue),
                               open |-> ~closed,
                               how |-> IF s.ok THEN "enq" ELSE "drop"]}
        /\ ppc' = [ppc EXCEPT ![p] = IF s.ok THEN "sent" ELSE "default"]
    /\ UNCHANGED <<restVars, wfail, pinner, closed, ctxDone, wg, dropped, pclosed, pn, pret,
                   closeVars, sink>>

\* Write, line 306: atomic.AddUint64(&aw.dropped, 1) in the default case.
WriteAddDropped(p) ==
    /\ ppc[p] = "default"
    /\ dropped' = dropped + 1
    /\ ppc' = [ppc EXCEPT ![p] = "counted"]
    /\ UNCHANGED <<restVars, wfail, pinner, queue, closed, ctxDone, wg, wpc, held, pclosed, pn,
                   pret, closeVars, sink, wlog>>

\* Mutant of WriteReturn: the default case returns an error for the dropped
\* entry.
WriteReturn_ErrOnDrop(p) ==
    /\ ppc[p] \in {"sent", "counted"}
    /\ pret' = [pret EXCEPT ![p] = IF ppc[p] = "counted" THEN "err" ELSE "nil"]
    /\ ppc' = [ppc EXCEPT ![p] = "idle"]
    /\ UNCHANGED <<restVars, wfail, pinner, awVars, wpc, held, pclosed, pn, closeVars, sink, wlog>>

\* Write, lines 303 and 307: `return nil` in either case of the select.
WriteReturn(p) ==
    /\ ppc[p] \in {"sent", "counted"}
    /\ pret' = [pret EXCEPT ![p] = "nil"]
    /\ ppc' = [ppc EXCEPT ![p] = "idle"]
    /\ UNCHANGED <<restVars, wfail, pinner, awVars, wpc, held, pclosed, pn, closeVars, sink, wlog>>

\* ----------------------------------------------------------------- worker

\* worker, lines 315-316: neither case of the select is ready (the buffer is
\* empty, the context not cancelled) and the worker blocks in it.
workerBlock ==
    /\ wpc = "loop"
    /\ queue = <<>>
    /\ ~ctxDone
    /\ wpc' = "select"
    /\ UNCHANGED <<restVars, wfail, pinner, awVars, held, ppc, pclosed, pn, pret, closeVars, sink, wlog>>

\* worker, line 321: the select finds an entry in the buffer and takes the
\* queue case (when both cases are ready Go picks either): the entry is
\* received.
workerRecv ==
    /\ wpc = "loop"
    /\ queue # <<>>
    /\ LET r == ChanRecv(queue) IN
        /\ queue' = r.q
        /\ held' = r.e
    /\ wpc' = "recvd"
    /\ UNCHANGED <<restVars, wfail, pinner, closed, ctxDone, wg, dropped, ppc, pclosed, pn, pret,
                   closeVars, sink, wlog>>

\* worker, line 323: the inner writer's Write is called with the entry
\* received.
workerWrite ==
    /\ wpc = "recvd"
    /\ sink' = InnerInvoke(sink, held, "worker")
    /\ held' = NoEntry
    /\ wpc' = "write"
    /\ UNCHANGED <<restVars, wfail, pinner, awVars, ppc, pclosed, pn, pret, closeVars, wlog>>

\* Mutant of workerWriteReturn: the worker returns after its first write.
workerWriteReturn_Exit ==
    /\ wpc = "write"
    /\ wpc' = "returning"
    /\ UNCHANGED <<restVars, wfail, pinner, awVars, held, ppc, pclosed, pn, pret, closeVars, sink, wlog>>

\* worker, line 323: the inner Write returns nil or an error, which is
\* discarded (`_ = aw.writer.Write(entry)`), and the loop goes round to the
\* select.
workerWriteReturn ==
    /\ wpc = "write"
    /\ \E r \in InnerResults : wfail' = Returned(r)
    /\ wpc' = "loop"
    /\ UNCHANGED <<restVars, pinner, awVars, held, ppc, pclosed, pn, pret, closeVars, sink, wlog>>

\* Mutant of workerCtxDone: on cancellation the worker returns without
\* calling drain.
workerCtxDone_NoDrain ==
    /\ wpc \in {"loop", "select"}
    /\ ctxDone
    /\ wpc' = "returning"
    /\ UNCHANGED <<restVars, wfail, pinner, awVars, held, ppc, pclosed, pn, pret, closeVars, sink, wlog>>

\* worker, lines 317-319: the select takes the ctx.Done case, on arriving at
\* it (when both cases are ready Go picks either) or woken from it by
\* aw.cancel(), and the worker calls drain.
workerCtxDone ==
    /\ wpc \in {"loop", "select"}
    /\ ctxDone
    /\ wpc' = "drain"
    /\ UNCHANGED <<restVars, wfail, pinner, awVars, held, ppc, pclosed, pn, pret, closeVars, sink, wlog>>

\* drain, line 332: an entry is in the buffer and is received.
drainRecv ==
    /\ wpc = "drain"
    /\ queue # <<>>
    /\ LET r == ChanRecv(queue) IN
        /\ queue' = r.q
        /\ held' = r.e
    /\ wpc' = "drainRecvd"
    /\ UNCHANGED <<restVars, wfail, pinner, closed, ctxDone, wg, dropped, ppc, pclosed, pn, pret,
                   closeVars, sink, wlog>>

\* drain, line 333: the inner writer's Write is called with the entry
\* received.
drainWrite ==
    /\ wpc = "drainRecvd"
    /\ sink' = InnerInvoke(sink, held, "worker")
    /\ held' = NoEntry
    /\ wpc' = "drainWrite"
    /\ UNCHANGED <<restVars, wfail, pinner, awVars, ppc, pclosed, pn, pret, closeVars, wlog>>

\* drain, line 333: the inner Write returns nil or an error, which is
\* discarded.
drainWriteReturn ==
    /\ wpc = "drainWrite"
    /\ \E r \in InnerResults : wfail' = Returned(r)
    /\ wpc' = "drain"
    /\ UNCHANGED <<restVars, pinner, awVars, held, ppc, pclosed, pn, pret, closeVars, sink, wlog>>

\* drain, lines 334-336, and worker, line 320: the select of drain finds the
\* buffer empty and takes its default case, drain returns and worker is at
\* its return.
drainEmpty ==
    /\ wpc = "drain"
    /\ queue = <<>>
    /\ wpc' = "returning"
    /\ UNCHANGED <<restVars, wfail, pinner, awVars, held, ppc, pclosed, pn, pret, closeVars, sink, wlog>>

\* Mutant of workerDone: the worker returns without aw.wg.Done().
workerDone_NoDone ==
    /\ wpc = "returning"
    /\ wpc' = "exited"
    /\ UNCHANGED <<restVars, wfail, pinner, awVars, held, ppc, pclosed, pn, pret, closeVars, sink, wlog>>

\* worker, lines 313 and 320: worker returns and its deferred aw.wg.Done()
\* runs.
workerDone ==
    /\ wpc = "returning"
    /\ wpc' = "exited"
    /\ wg' = wg - 1
    /\ UNCHANGED <<restVars, wfail, pinner, queue, closed, ctxDone, dropped, held, ppc, pclosed, pn,
                   pret, closeVars, sink, wlog>>

\* ------------------------------------------------------------------ Close

\* Mutant of CloseCheck: no early return for an already closed writer.
CloseCheck_NoGuard(c) ==
    /\ newResult = "ok"
    /\ cpc[c] = "idle"
    /\ cleft[c] > 0
    /\ cleft' = [cleft EXCEPT ![c] = @ - 1]
    /\ closed' = TRUE
    /\ cpc' = [cpc EXCEPT ![c] = "cancel"]
    /\ cret' = [cret EXCEPT ![c] = None]
    /\ clog' = [clog EXCEPT ![c] = [did |-> ~closed,
                                    after |-> \E d \in Closers : cret[d] = "nil"]]
    /\ UNCHANGED <<restVars, wfail, pinner, queue, ctxDone, wg, dropped, wpc, held, ppc, pclosed, pn,
                   pret, sink, wlog, drained>>

\* Close, lines 343-350: the call starts; under the write lock, an already
\* closed writer returns nil, otherwise aw.closed is set.  The history
\* records whether this call made the open-to-closed transition (did) and
\* whether a Close call had already returned when this one started (after).
CloseCheck(c) ==
    /\ newResult = "ok"
    /\ cpc[c] = "idle"
    /\ cleft[c] > 0
    /\ cleft' = [cleft EXCEPT ![c] = @ - 1]
    /\ IF closed
        THEN /\ cret' = [cret EXCEPT ![c] = "nil"]
             /\ UNCHANGED <<closed, cpc>>
        ELSE /\ closed' = TRUE
             /\ cpc' = [cpc EXCEPT ![c] = "cancel"]
             /\ cret' = [cret EXCEPT ![c] = None]
    /\ clog' = [clog EXCEPT ![c] = [did |-> ~closed,
                                    after |-> \E d \in Closers : cret[d] = "nil"]]
    /\ UNCHANGED <<restVars, wfail, pinner, queue, ctxDone, wg, dropped, wpc, held, ppc, pclosed, pn,
                   pret, sink, wlog, drained>>

\* Close, line 353: aw.cancel().
CloseCancel(c) ==
    /\ cpc[c] = "cancel"
    /\ ctxDone' = TRUE
    /\ cpc' = [cpc EXCEPT ![c] = "wait"]
    /\ UNCHANGED <<restVars, wfail, pinner, queue, closed, wg, dropped, wpc, held, ppc, pclosed, pn,
                   pret, cleft, cret, sink, wlog, clog, drained>>

\* Close, lines 356-358: aw.wg.Wait() returns once the counter is zero, and
\* Close returns nil.
CloseWait(c) ==
    /\ cpc[c] = "wait"
    /\ wg = 0
    /\ cpc' = [cpc EXCEPT ![c] = "idle"]
    /\ cret' = [cret EXCEPT ![c] = "nil"]
    /\ drained' = TRUE
    /\ UNCHANGED <<restVars, wfail, pinner, awVars, wpc, held, ppc, pclosed, pn, pret, cleft, sink,
                   wlog, clog>>

\* DroppedCount, lines 362-364: an atomic load of aw.dropped.
DroppedCount == dropped

\* ---------------------------------------------------------- specification

Producer(p) ==
    \/ WriteReadClosed(p)
    \/ WriteSync(p)
    \/ WriteSyncReturn(p)
    \/ WriteSelect(p)
    \/ WriteAddDropped(p)
    \/ WriteReturn(p)

Worker ==
    \/ workerBlock
    \/ workerRecv
    \/ workerWrite
    \/ workerWriteReturn
    \/ workerCtxDone
    \/ drainRecv
    \/ drainWrite
    \/ drainWriteReturn
    \/ drainEmpty
    \/ workerDone

Closer(c) ==
    \/ CloseCheck(c)
    \/ CloseCancel(c)
    \/ CloseWait(c)

Next ==
    \/ \E p \in Producers : Producer(p)
    \/ Worker
    \/ \E c \in Closers : Closer(c)

Spec == Init /\ [][Next]_vars

\* The Go scheduler runs every runnable goroutine: the worker (whose inner
\* Write calls are assumed to return) and the goroutines inside Close keep
\* taking their steps.  Nothing is assumed of the producers.
FairSpec ==
    /\ Spec
    /\ WF_vars(Worker)
    /\ \A c \in Closers : WF_vars(Closer(c))

\* The steps of Write on an open writer.
WriteOpen(p) == WriteSelect(p) \/ WriteAddDropped(p) \/ WriteReturn(p)

\* Only the producers are scheduled: the worker, the inner writer and the
\* closers may stop for ever at any point.
ProducerFairSpec ==
    /\ Spec
    /\ \A p \in Producers : WF_vars(WriteOpen(p))

\* Only the worker (whose inner Write calls are assumed to return) is
\* scheduled fairly; Close need never be called.
WorkerFairSpec ==
    /\ Spec
    /\ WF_vars(Worker)

\* The AsyncWriter with one Close call, the history of the worker's failed
\* inner Write calls kept.
FailInit ==
    /\ Started([c \in Closers |-> IF c = "c1" THEN 1 ELSE 0])
    /\ wfail = NoFailure

FailSpec == FailInit /\ [][Next]_vars

\* The worker is scheduled and its inner Write calls return.
FailFairSpec == FailSpec /\ WF_vars(Worker)

\* Two goroutines call Close once each.
TwoCloserInit == InitWith([c \in Closers |-> 1])

TwoCloserSpec == TwoCloserInit /\ [][Next]_vars

\* The AsyncWriter from its construction with any bufferSize.
CapSpec == CapInit /\ [][Next]_vars

\* --------------------------------------------- logger facade: operations

\* Mutant of Validate: a configuration without Fields is rejected too.
Validate_NeedsFields(c) == IF c.Output = "nil" \/ c.Fields.len = 0 THEN "error" ELSE "ok"

\* Config.Validate: an error iff Output is nil.
Validate(c) == IF c.Output = "nil" THEN "error" ELSE "ok"

\* New(cfg) with cfg.Fields in the heap h: Validate, then a logger holding
\* cfg, cfg.Fields itself (the same backing array) and context.Background().  AsyncEnabled and
\* AsyncBufferSize are not read: Output is used as given and no AsyncWriter
\* is made.
New(c, h) ==
    /\ cfg = c
    /\ lnew = Validate(c)
    /\ heap = h
    /\ loggers = IF Validate(c) = "ok"
                    THEN <<[fields |-> c.Fields, prefix |-> <<>>, context |-> Background]>>
                    ELSE <<>>
    /\ born = IF Validate(c) = "ok"
                 THEN <<[fields |-> [i \in 1 .. c.Fields.len |-> h[c.Fields.arr][i]],
                         texts |-> <<>>, parent |-> 0, by |-> "New"]>>
                 ELSE <<>>
    /\ last = NoCall

LoggerInit ==
    /\ NoAsyncWriter
    /\ NoOther
    /\ \E c \in Configs : \E u \in UserFields : c.Fields = u.fields /\ New(c, u.heap)

\* Mutant of Enabled: the configured level itself is filtered out.
Enabled_Strict(l, level) == level > l

\* Level.Enabled: `return level >= l`.
Enabled(l, level) == level >= l

\* The capacity append gives a new backing array when `need` cells do not fit
\* in the old one of `old` cells: twice the old capacity, or need if that is
\* more (Go's growth rule for slices of fewer than 256 elements).
GrowCap(old, need) == IF need > old + old THEN need ELSE old + old

\* append(s, xs...) for a non-empty xs: the slice returned and the heap after
\* it.  If the elements fit in cap(s) they are stored in s's own backing
\* array, after its first len(s) cells; otherwise a new array receives a copy
\* of s followed by xs.
GoAppend(s, xs) ==
    LET need == s.len + Len(xs) IN
    IF need <= Cap(s)
        THEN [slice |-> Slice(s.arr, need),
              heap |-> [heap EXCEPT ![s.arr] =
                          [i \in 1 .. Len(@) |->
                              IF i > s.len /\ i <= need THEN xs[i - s.len] ELSE @[i]]]]
        ELSE [slice |-> Slice(Len(heap) + 1, need),
              heap |-> Append(heap,
                          [i \in 1 .. GrowCap(Cap(s), need) |->
                              IF i <= s.len THEN heap[s.arr][i]
                              ELSE IF i <= need THEN xs[i - s.len]
                              ELSE ZeroField])]

\* WithFields, line 74: `fields: append(l.fields, fields...)`.
WithFieldsSlice(s, xs) == GoAppend(s, xs)

\* l.WithFields(fs...), lines 71-77: a new logger with the same config and
\* context and the slice append returns.  (The prefix a logger got from
\* Prefix is kept.)
WithFields(i, fs) ==
    /\ lnew = "ok"
    /\ i \in DOMAIN loggers
    /\ Len(loggers) < MaxLoggers
    /\ LET a == WithFieldsSlice(loggers[i].fields, fs) IN
        /\ heap' = a.heap
        /\ loggers' = Append(loggers, [fields |-> a.slice, prefix |-> loggers[i].prefix,
                                       context |-> loggers[i].context])
    /\ born' = Append(born, [fields |-> born[i].fields \o fs, texts |-> born[i].texts,
                             parent |-> i, by |-> "WithFields"])
    /\ UNCHANGED <<cfg, lnew, last, asyncVars>>

\* l.WithContext(ctx), lines 80-86: a new logger with the same config, the
\* slice l.fields itself (the same backing array, length and capacity) and
\* ctx, which may be nil, as its context.
WithContext(i, ctx) ==
    /\ lnew = "ok"
    /\ i \in DOMAIN loggers
    /\ Len(loggers) < MaxLoggers
    /\ loggers' = Append(loggers, [fields |-> loggers[i].fields,
                                   prefix |-> loggers[i].prefix, context |-> ctx])
    /\ born' = Append(born, [fields |-> born[i].fields, texts |-> born[i].texts,
                             parent |-> i, by |-> "WithContext"])
    /\ UNCHANGED <<cfg, lnew, heap, last, asyncVars>>

\* Mutant of PrefixCompose: the new text is put in front of the old prefix.
PrefixCompose_Reversed(old, text) == <<text, " ">> \o old

\* The prefix of l.Prefix(text): l's prefix followed by text and one space.
PrefixCompose(old, text) == old \o <<text, " ">>

\* l.Prefix(text): a new logger with the same config, fields and context and
\* the composed prefix.
Prefix(i, text) ==
    /\ lnew = "ok"
    /\ i \in DOMAIN loggers
    /\ Len(loggers) < MaxLoggers
    /\ loggers' = Append(loggers, [fields |-> loggers[i].fields,
                                   prefix |-> PrefixCompose(loggers[i].prefix, text),
                                   context |-> loggers[i].context])
    /\ born' = Append(born, [fields |-> born[i].fields,
                             texts |-> Append(born[i].texts, text), parent |-> i,
                             by |-> "Prefix"])
    /\ UNCHANGED <<cfg, lnew, heap, last, asyncVars>>

\* The message a logger delivers for msg: its prefix, then msg.
PrefixedMessage(l, msg) == l.prefix \o <<msg>>

\* fieldMap[k] = v on a Go map.
MapSet(m, k, v) == [x \in (DOMAIN m) \cup {k} |-> IF x = k THEN v ELSE m[x]]

\* make(map[string]interface{}).
EmptyMap == [x \in {} |-> ""]

\* `for _, field := range fs { fieldMap[field.Key] = field.Value }`.
RECURSIVE AddFields(_, _)
AddFields(m, fs) ==
    IF fs = <<>> THEN m
    ELSE AddFields(MapSet(m, Head(fs).Key, Head(fs).Value), Tail(fs))

\* unwrapError: the cause if err has an Unwrap method, else nil.
unwrapError(err) ==
    IF err.wraps
        THEN [nil |-> FALSE, msg |-> err.cause, wraps |-> FALSE, cause |-> ""]
        ELSE NilErr

\* log, lines 111-118: the error's message under "error" and its cause's
\* under "error_cause".
AddError(m, err) ==
    IF err.nil THEN m
    ELSE LET m1 == MapSet(m, "error", err.msg) IN
         IF ~unwrapError(err).nil
            THEN MapSet(m1, "error_cause", unwrapError(err).msg)
            ELSE m1

\* Mutant of FieldMap: the call-site fields are applied first.
FieldMap_CallFirst(persistent, fields, err) ==
    AddError(AddFields(AddFields(EmptyMap, fields), persistent), err)

\* log, lines 99-119: the persistent fields, then the call-site fields, then
\* the error.
FieldMap(persistent, fields, err) ==
    AddError(AddFields(AddFields(EmptyMap, persistent), fields), err)

\* The string under key, "" if the key is missing or its value no string.
StringValue(ctx, key) ==
    IF Value(ctx, key).kind = "string" THEN Value(ctx, key).s ELSE ""

\* extractTraceContext, lines 157-170.
extractTraceContext(ctx) ==
    [traceID |-> StringValue(ctx, "trace_id"), spanID |-> StringValue(ctx, "span_id")]

\* extractRequestID, lines 173-180.
extractRequestID(ctx) == StringValue(ctx, "request_id")

\* log, lines 91-97: logCtx is the context of the call, the logger's own
\* when the call passes nil, and context.Background() when that is nil too.
LogCtx(l, ctx) ==
    IF ~ctx.nil THEN ctx
    ELSE IF ~l.context.nil THEN l.context
    ELSE Background

\* log, lines 89-152: the entry handed to Output.Write.  (Timestamp, Caller
\* and Stacktrace are left out.)
log(l, ctx, level, msg, err, fields) ==
    [Level |-> level,
     Message |-> PrefixedMessage(l, msg),
     Fields |-> FieldMap(Contents(l.fields), fields, err),
     TraceID |-> IF cfg.EnableTraceCorrelation
                    THEN extractTraceContext(LogCtx(l, ctx)).traceID ELSE "",
     SpanID |-> IF cfg.EnableTraceCorrelation
                   THEN extractTraceContext(LogCtx(l, ctx)).spanID ELSE "",
     RequestID |-> extractRequestID(LogCtx(l, ctx))]

\* The body shared by Debug, Info, Warn and Error: return if the level is
\* not enabled, else l.log, which ends with Output.Write(entry) on the
\* caller's goroutine.  A log call changes nothing a later call reads (no
\* logger, no slice), so a behaviour holds one log call, made after any
\* WithFields, WithContext and Prefix calls and followed by any.
LevelCall(i, ctx, level, err, fields) ==
    /\ lnew = "ok"
    /\ i \in DOMAIN loggers
    /\ last = NoCall
    /\ last' = [logger |-> i, level |-> level, ctx |-> ctx, err |-> err,
                fields |-> fields,
                persistent |-> Contents(loggers[i].fields),
                written |-> IF Enabled(cfg.Level, level)
                               THEN <<log(loggers[i], ctx, level, Msg, err, fields)>>
                               ELSE <<>>]
    /\ UNCHANGED <<cfg, lnew, heap, loggers, born, asyncVars>>

\* l.Debug(ctx, msg, fields...), lines 39-44.
Debug(i, ctx, fields) == LevelCall(i, ctx, DebugLevel, NilErr, fields)

\* l.Info(ctx, msg, fields...), lines 47-52.
Info(i, ctx, fields) == LevelCall(i, ctx, InfoLevel, NilErr, fields)

\* l.Warn(ctx, msg, fields...), lines 55-60.
Warn(i, ctx, fields) == LevelCall(i, ctx, WarnLevel, NilErr, fields)

\* l.Error(ctx, msg, err, fields...), lines 63-68.
Error(i, ctx, err, fields) == LevelCall(i, ctx, ErrorLevel, err, fields)

LoggerIds == 1 .. MaxLoggers

LoggerNext ==
    \/ \E i \in LoggerIds : \E f \in WithPool : WithFields(i, <<f>>)
    \/ \E i \in LoggerIds : \E ctx \in ChildContexts : WithContext(i, ctx)
    \/ \E i \in LoggerIds : \E ctx \in Contexts : \E fs \in CallFields : Debug(i, ctx, fs)
    \/ \E i \in LoggerIds : \E ctx \in Contexts : \E fs \in CallFields : Info(i, ctx, fs)
    \/ \E i \in LoggerIds : \E ctx \in Contexts : \E fs \in CallFields : Warn(i, ctx, fs)
    \/ \E i \in LoggerIds : \E ctx \in Contexts : \E fs \in CallFields :
        \E err \in Errs : Error(i, ctx, err, fs)

\* The facade as src/ has it: New, WithFields, WithContext and the four log
\* methods, for every configuration.
LoggerSpec == LoggerInit /\ [][LoggerNext]_vars

\* New for the configurations of the Prefix tests: a mock Output, no toggles,
\* nil Fields, any Level.
PrefixInit ==
    /\ NoAsyncWriter
    /\ NoOther
    /\ \E c \in Configs :
        /\ c.Output = "mock"
        /\ ~c.EnableTraceCorrelation
        /\ ~c.AsyncEnabled
        /\ c.Fields = Slice(0, 0)
        /\ New(c, <<>>)

PrefixNext ==
    \/ \E i \in LoggerIds : \E t \in PrefixTexts : Prefix(i, t)
    \/ \E i \in LoggerIds : \E f \in WithPool : WithFields(i, <<f>>)
    \/ \E i \in LoggerIds : \E ctx \in Contexts : \E fs \in CallFields : Info(i, ctx, fs)

\* The facade with Prefix: New, Prefix, WithFields and Info.
PrefixSpec == PrefixInit /\ [][PrefixNext]_vars

\* ----------------------------------------------------------------- claims

\* An entry is waiting in the queue: in the channel's buffer, or received by
\* the worker and not yet passed to the inner writer.
InQueue(e) == held = e \/ \E i \in DOMAIN queue : queue[i] = e

\* Some entry is waiting in the queue.
Waiting == queue # <<>> \/ held # NoEntry

\* The Close call that made the open-to-closed transition has returned.
FirstCloseReturned == drained

\* The Write call of a history record has returned.
Completed(r) == ~(ppc[r.e.p] # "idle" /\ pn[r.e.p] = r.e.n)

\* The Write calls that put their entry in the queue while aw.closed was
\* still false, i.e. before the first Close call started.
EnqueuedBeforeClose == {r \in wlog : r.how = "enq" /\ r.open}

\* C1 (drain on close): once the Close call that closed the writer has
\* returned, every entry that a Write put in the queue before that Close call
\* started has been passed to the inner writer's Write exactly once.
C1_DrainOnClose ==
    FirstCloseReturned => \A r \in EnqueuedBeforeClose : Deliveries(r.e) = 1

\* Close has returned after draining at least two entries that were enqueued
\* before it was called.
C1_Witness ==
    /\ FirstCloseReturned
    /\ Cardinality(EnqueuedBeforeClose) >= 2
    /\ \A r \in EnqueuedBeforeClose : Deliveries(r.e) = 1

\* C2 (accounting): once Close has returned and no Write call is in progress,
\* the number of inner Write invocations plus DroppedCount() equals the
\* number of Write calls that have returned.
C2_Accounting ==
    (FirstCloseReturned /\ \A p \in Producers : ppc[p] = "idle")
        => Len(sink) + DroppedCount = Cardinality({r \in wlog : Completed(r)})

\* C3 (non-blocking enqueue): a Write call that saw the writer open completes
\* and returns nil by its own step alone, whatever the state of the queue and
\* even if the worker never takes another step.
C3_NonBlockingEnqueue ==
    \A p \in Producers :
        (ppc[p] = "checked" /\ ~pclosed[p]) ~> (ppc[p] = "idle" /\ pret[p] = "nil")

\* A Write has returned nil after finding the queue full while the worker is
\* inside an inner Write.
C3_Witness ==
    /\ wpc = "write"
    /\ Len(queue) = QueueCap
    /\ \E p \in Producers :
        /\ ppc[p] = "idle"
        /\ pret[p] = "nil"
        /\ \E r \in wlog : r.e = Entry(p, pn[p]) /\ r.how = "drop"

\* C4 (queue bound): the queue never holds more than QueueCap entries, and a
\* Write that finds it full leaves its contents unchanged.
C4_QueueBound ==
    /\ [](Len(queue) <= QueueCap)
    /\ [][\A p \in Producers :
            /\ (/\ ppc[p] = "checked"
                /\ ppc'[p] # "checked"
                /\ ~pclosed[p]
                /\ Len(queue) >= QueueCap) => (queue' = queue /\ ppc'[p] = "default")
            /\ (ppc[p] \in {"default", "counted"} /\ ppc'[p] # ppc[p])
                    => queue' = queue]_vars

\* The queue is full and a Write that found it full has returned.
C4_Witness ==
    /\ Len(queue) = QueueCap
    /\ \E r \in wlog : r.how = "drop" /\ Completed(r)

\* The Write calls that saw the writer open and found the queue full.
FoundFull == {r \in wlog : ~r.sawClosed /\ r.full}

\* The Write call of a history record has executed its increment of
\* aw.dropped.
Counted(r) == Completed(r) \/ ppc[r.e.p] = "counted"

\* C5 (drop counting of completed calls): at every moment DroppedCount() is the
\* number of completed Write calls that saw the writer open and found the
\* queue full; the counter only changes by one, in a step of such a Write,
\* which leaves the queue as it is, and never in a step of a Write that
\* enqueued its entry, of a post-close Write, of the worker, of drain or of
\* Close.
C5_DropCounting ==
    /\ [](DroppedCount = Cardinality({r \in FoundFull : Completed(r)}))
    /\ [][dropped' # dropped =>
            /\ dropped' = dropped + 1
            /\ queue' = queue
            /\ \E p \in Producers :
                /\ ppc[p] = "default" /\ ~pclosed[p] /\ ppc'[p] = "counted"
                /\ \E r \in FoundFull : r.e = Entry(p, pn[p]) /\ r.how = "drop"]_vars

\* C5 (drop counting, counted before the return): DroppedCount() is always
\* the number of Write calls that saw the writer open, found the queue full
\* and have executed their increment, so it is the number of completed such
\* calls plus those between their increment and their return, and exactly
\* the number of completed ones whenever no Write is in progress.  A Write
\* finds the queue full exactly when it does not enqueue; the counter only
\* changes by one, in the increment of such a Write, which leaves the queue
\* as it is, and never in a step of a Write that enqueued its entry, of a
\* post-close Write, of the worker, of drain or of Close.
C5_DropCountedBeforeReturn ==
    /\ [](DroppedCount = Cardinality({r \in FoundFull : Counted(r)}))
    /\ []((\A p \in Producers : ppc[p] = "idle")
            => DroppedCount = Cardinality({r \in FoundFull : Completed(r)}))
    /\ [](\A r \in wlog : ~r.sawClosed => (r.full <=> r.how = "drop"))
    /\ [](\A r1, r2 \in wlog : r1.e = r2.e => r1 = r2)
    /\ [][dropped' # dropped =>
            /\ dropped' = dropped + 1
            /\ queue' = queue
            /\ \E p \in Producers :
                /\ ppc[p] = "default" /\ ~pclosed[p] /\ ppc'[p] = "counted"
                /\ \E r \in FoundFull : r.e = Entry(p, pn[p]) /\ r.how = "drop"]_vars

\* A Write has incremented the counter and not yet returned, after another
\* dropped its entry and returned; entries were enqueued as well.
C5_Witness ==
    /\ DroppedCount = 2
    /\ Cardinality({r \in FoundFull : Completed(r)}) = 1
    /\ \E p \in Producers : ppc[p] = "counted"
    /\ \E r \in wlog : r.how = "enq"

\* C6 (FIFO per producer): the entries of one producer that reach the inner
\* writer through the queue are seen by it in the order of the producer's
\* Write calls, whatever the other producers, the worker and Close do.
C6_FifoPerProducer ==
    \A i, j \in DOMAIN sink :
        (/\ i < j
         /\ sink[i].by = "worker"
         /\ sink[j].by = "worker"
         /\ sink[i].e.p = sink[j].e.p) => sink[i].e.n < sink[j].e.n

\* Two entries of one producer have reached the inner writer through the
\* queue with an entry of another producer between them.
C6_Witness ==
    \E i, j, k \in DOMAIN sink :
        /\ i < k /\ k < j
        /\ sink[i].by = "worker" /\ sink[j].by = "worker" /\ sink[k].by = "worker"
        /\ sink[i].e.p = sink[j].e.p
        /\ sink[k].e.p # sink[i].e.p

\* C7 (serialized inner writes): at no time are two invocations of the inner
\* writer's Write in progress.
C7_SerializedInnerWrites == Cardinality(InInner) <= 1

\* C8 (Close blocks until shutdown is complete): when the Close call that
\* closed the writer returns, the worker has exited and the queue is empty.
C8_CloseBlocksUntilShutdown ==
    [][\A c \in Closers :
        (cpc[c] = "wait" /\ cpc'[c] = "idle")
            => (wpc' = "exited" /\ queue' = <<>>)]_vars

\* C9 (idempotent close): a Close call that starts after an earlier Close has
\* returned returns nil at once and leaves the inner writer, the closed flag,
\* the queue and the dropped counter as they are; no entry is passed to the
\* inner writer twice; aw.closed never goes back to false.
C9_IdempotentClose ==
    /\ [](\A i, j \in DOMAIN sink : sink[i].e = sink[j].e => i = j)
    /\ [][/\ closed => closed'
          /\ \A c \in Closers :
                (/\ cleft'[c] # cleft[c]
                 /\ \E d \in Closers : cret[d] = "nil")
                    => /\ cpc'[c] = "idle"
                       /\ cret'[c] = "nil"
                       /\ sink' = sink
                       /\ closed' = closed
                       /\ queue' = queue
                       /\ dropped' = dropped]_vars

\* A Close call made after an earlier Close returned has returned, after
\* entries were delivered.
C9_Witness ==
    /\ \E c \in Closers :
        cpc[c] = "idle" /\ cret[c] = "nil" /\ clog[c].after /\ ~clog[c].did
    /\ Len(sink) >= 2

\* C10 (Close terminates): with the worker and the closers scheduled and
\* every inner Write of the worker returning, every Close call that has
\* started returns.
C10_CloseTerminates ==
    \A c \in Closers : (cpc[c] \in {"cancel", "wait"}) ~> (cpc[c] = "idle")

\* Close has returned after the worker delivered queued entries, while a
\* producer is inside Write.
C10_Witness ==
    /\ FirstCloseReturned
    /\ \E i \in DOMAIN sink : sink[i].by = "worker"
    /\ \E p \in Producers : ppc[p] # "idle"

\* C11 (post-close fallback): a Write that saw the writer closed has, when it
\* returns, invoked the inner writer with its entry exactly once, on its own
\* goroutine, and returns what that invocation returned; none of its steps
\* changes the queue or the dropped counter.
C11_PostCloseFallback ==
    /\ [](\A r \in wlog : r.how = "sync" =>
            /\ Deliveries(r.e) = 1
            /\ \E i \in DOMAIN sink : sink[i].e = r.e /\ sink[i].by = r.e.p
            /\ ~InQueue(r.e))
    /\ [](\A p \in Producers :
            (ppc[p] = "idle" /\ pclosed[p] /\ pn[p] > 0) => pret[p] = pinner[p])
    /\ [][\A p \in Producers :
            (pclosed[p] /\ ppc[p] # "idle" /\ ppc'[p] # ppc[p])
                => queue' = queue /\ dropped' = dropped]_vars

\* A post-close Write has returned the error of its inner Write while the
\* queue still holds an entry and an entry was dropped earlier.
C11_Witness ==
    /\ \E p \in Producers :
        ppc[p] = "idle" /\ pclosed[p] /\ pret[p] = "err" /\ pinner[p] = "err"
    /\ queue # <<>>
    /\ dropped >= 1

\* C12 as stated (never surfaces inner errors): no Write call returns an
\* error, whether the writer is open or closed.
C12_NeverSurfacesErrors == \A p \in Producers : pret[p] # "err"

\* C12 (errors surface only after Close): a Write that saw the writer open
\* returns nil; a Write returns an error only if it saw the writer closed
\* and its own synchronous inner Write returned that error.
C12_ErrorsOnlyAfterClose ==
    \A p \in Producers :
        /\ (ppc[p] = "idle" /\ pn[p] > 0 /\ ~pclosed[p]) => pret[p] = "nil"
        /\ pret[p] = "err" =>
            /\ pclosed[p]
            /\ pinner[p] = "err"
            /\ \E r \in wlog : r.e.p = p /\ r.how = "sync"

\* One producer's last Write saw the writer open, dropped its entry and
\* returned nil; the other's post-close Write returned the inner error.
C12_Witness ==
    \E p, q \in Producers :
        /\ ppc[p] = "idle" /\ ~pclosed[p] /\ pret[p] = "nil"
        /\ \E r \in wlog : r.e = Entry(p, pn[p]) /\ r.how = "drop"
        /\ ppc[q] = "idle" /\ pclosed[q] /\ pret[q] = "err"

\* The first Write on a fresh wrapper (the only Write call made so far, seeing
\* the writer open) put its entry in the queue.
FreshWriteEnqueues ==
    \A r \in wlog : (wlog = {r} /\ WritesStarted = 1 /\ ~r.sawClosed) => r.how = "enq"

\* C13 (capacity validation): NewAsyncWriter called with a zero or negative
\* bufferSize returns a construction error, or a wrapper whose queue has a
\* positive capacity and on which the first Write enqueues.
C13_CapacityValidation ==
    bufferSize <= 0 =>
        \/ newResult = "error"
        \/ /\ newResult = "ok"
           /\ QueueCapacity > 0
           /\ FreshWriteEnqueues

\* C14 (eventual delivery while open): with the worker scheduled and its
\* inner Write calls returning, the entries enqueued in the open writer are
\* passed to the inner writer without any Close call.  An enqueued entry
\* stops waiting only by being passed to the inner writer, and in an open
\* writer where entries wait there comes a moment when none does (the
\* producers make finitely many Write calls), unless a Close call intervenes.
C14_EventualDelivery ==
    /\ [](\A r \in wlog : r.how = "enq" => InQueue(r.e) \/ Deliveries(r.e) = 1)
    /\ (~closed /\ Waiting) ~> (closed \/ ~Waiting)

\* The worker has delivered entries of both producers and no Close call has
\* been made.
C14_Witness ==
    /\ ~closed
    /\ cleft["c1"] = MaxCloses
    /\ \A p \in Producers : \E i \in DOMAIN sink :
        sink[i].e.p = p /\ sink[i].by = "worker"

\* A log call has been made (last describes it).
Called == last.logger # 0

\* Output.Write was invoked inside the last log call.
Delivered == Called /\ last.written # <<>>

\* C15 (async configuration honoured): with AsyncEnabled a log call returns
\* without Output.Write having run inside it (the entry goes through the
\* queue); without AsyncEnabled Output.Write runs inside every enabled call.
C15_AsyncHonoured ==
    Called =>
        IF cfg.AsyncEnabled
            THEN last.written = <<>>
            ELSE last.level >= cfg.Level => Len(last.written) = 1

\* C16 (level gate): for every configured minimum level M and call level L,
\* the call invokes Output.Write exactly once if L >= M and not at all
\* otherwise.
C16_LevelGate ==
    Called =>
        /\ last.level >= cfg.Level => Len(last.written) = 1
        /\ last.level < cfg.Level => Len(last.written) = 0

\* Calls at the configured level itself are delivered, for a level that has
\* levels below and above it.
C16_Witness ==
    /\ Delivered
    /\ cfg.Level = WarnLevel
    /\ last.level = WarnLevel
    /\ last.written[1].Level = WarnLevel

\* C17 (WithFields does not mutate its parent): whenever a logger logs, its
\* persistent fields are those it was made with: New's logger those of
\* Config.Fields, a child those of its parent at the WithFields call followed
\* by the fields of that call, whatever WithFields calls were made since.
C17_WithFieldsFrame ==
    Called => last.persistent = born[last.logger].fields

\* The keys of a field list.
Keys(fs) == {fs[i].Key : i \in DOMAIN fs}

\* The value of the last field of the list that has key k.
LastValue(fs, k) ==
    LET i == CHOOSE i \in DOMAIN fs :
                /\ fs[i].Key = k
                /\ \A j \in DOMAIN fs : fs[j].Key = k => j <= i
    IN  fs[i].Value

\* C18 (field layering): the delivered entry's field map has the keys of the
\* persistent and of the call-site fields, plus "error" for a non-nil error
\* and "error_cause" if that error unwraps to a cause; on each key the error
\* wins over the call-site fields, which win over the persistent fields.
C18_FieldLayering ==
    Delivered =>
        LET m == last.written[1].Fields
            p == last.persistent
            c == last.fields
            e == last.err
        IN  /\ DOMAIN m = Keys(p) \cup Keys(c)
                    \cup (IF e.nil THEN {} ELSE {"error"})
                    \cup (IF ~e.nil /\ e.wraps THEN {"error_cause"} ELSE {})
            /\ \A k \in DOMAIN m :
                m[k] = IF ~e.nil /\ k = "error" THEN e.msg
                       ELSE IF ~e.nil /\ e.wraps /\ k = "error_cause" THEN e.cause
                       ELSE IF k \in Keys(c) THEN LastValue(c, k)
                       ELSE LastValue(p, k)

\* An entry was delivered for a call whose call-site field collides with two
\* persistent fields and whose error unwraps to a cause.
C18_Witness ==
    /\ Delivered
    /\ Len(last.persistent) = 2
    /\ Keys(last.persistent) = {"a"}
    /\ last.fields = <<Field("a", "2")>>
    /\ last.err = WrappedErr
    /\ last.written[1].Fields["a"] = "2"
    /\ last.written[1].Fields["error_cause"] = "inner"

\* The message of a logger made by the Prefix calls with texts ts, in the
\* order they were made: each text and a space, first call first, then msg.
RECURSIVE Prefixed(_, _)
Prefixed(ts, msg) ==
    IF ts = <<>> THEN <<msg>> ELSE <<Head(ts), " ">> \o Prefixed(Tail(ts), msg)

\* C19 (prefix composition): a delivered entry's Message is the texts of the
\* Prefix calls that led to its logger, left to right, each followed by one
\* space, then the message; a logger's own messages are not changed by
\* Prefix calls made on it.
C19_PrefixComposition ==
    Delivered => last.written[1].Message = Prefixed(born[last.logger].texts, Msg)

\* l.Prefix("[A]").Prefix("[B]") delivered "[A] [B] msg".
C19_Witness ==
    /\ Delivered
    /\ last.written[1].Message = <<"[A]", " ", "[B]", " ", "msg">>

\* The string a context holds under key ("" if ctx is nil, the key is
\* missing or its value is no string).
Stored(ctx, key) ==
    IF ~ctx.nil /\ ctx[key].kind = "string" THEN ctx[key].s ELSE ""

\* The context of the last log call: the one passed to it or, when that is
\* nil, the one its logger was given by WithContext.
CallCtx ==
    IF last.ctx.nil THEN loggers[last.logger].context ELSE last.ctx

\* C20 (correlation gated by configuration): without
\* EnableTraceCorrelation a delivered entry has no TraceID, SpanID or
\* RequestID; with it each is the string the call's context (the logger's
\* when the call passes none) holds under its key.
C20_CorrelationGated ==
    Delivered =>
        LET e == last.written[1] IN
        IF cfg.EnableTraceCorrelation
            THEN /\ e.TraceID = Stored(CallCtx, "trace_id")
                 /\ e.SpanID = Stored(CallCtx, "span_id")
                 /\ e.RequestID = Stored(CallCtx, "request_id")
            ELSE e.TraceID = "" /\ e.SpanID = "" /\ e.RequestID = ""

\* C21 (construction error): New returns an error and no logger iff the
\* configuration's Output is nil; with any other configuration it returns a
\* logger and no error.
C21_ConstructionError ==
    /\ lnew = "error" <=> cfg.Output = "nil"
    /\ lnew = "error" => loggers = <<>>
    /\ lnew = "ok" => Len(loggers) >= 1 /\ loggers[1].fields = cfg.Fields

\* New was refused for a configuration with a nil Output and every toggle
\* set.
C21_Witness ==
    /\ lnew = "error"
    /\ loggers = <<>>
    /\ cfg.Output = "nil"
    /\ cfg.AsyncEnabled
    /\ cfg.EnableTraceCorrelation
    /\ cfg.Level = ErrorLevel

\* c1 and c2 were made by WithFields from the same parent, c1 first.
Siblings(c1, c2) ==
    /\ c1 \in DOMAIN loggers
    /\ c2 \in DOMAIN loggers
    /\ c1 < c2
    /\ born[c1].by = "WithFields"
    /\ born[c2].by = "WithFields"
    /\ born[c1].parent = born[c2].parent

\* C29 (sibling isolation of WithFields): once c2 := p.WithFields(b) is made
\* after c1 := p.WithFields(a), the persistent fields c1 holds, and those a
\* log call through c1 has read, are still p's followed by a.
C29_SiblingIsolation ==
    \A c1, c2 \in LoggerIds :
        Siblings(c1, c2) =>
            /\ Contents(loggers[c1].fields) = born[c1].fields
            /\ (Called /\ last.logger = c1) => last.persistent = born[c1].fields

\* The worker's inner Write invocations of entry e.
WorkerDeliveries(e) ==
    Cardinality({i \in DOMAIN sink : sink[i].e = e /\ sink[i].by = "worker"})

\* C25 (inner write failure swallowed): every entry taken from the queue
\* causes exactly one inner Write invocation, whatever that invocation
\* returns; when the inner Write returns an error to the worker or to drain,
\* the step invokes nothing and returns to the loop it came from, the worker
\* terminates only through Close, and with the worker scheduled the entries
\* in the queue after a failure are all taken from it and delivered.
C25_InnerFailureSwallowed ==
    /\ [](\A r \in wlog : r.how = "enq" =>
            IF InQueue(r.e) THEN WorkerDeliveries(r.e) = 0
                            ELSE WorkerDeliveries(r.e) = 1)
    /\ [](wpc = "exited" => ctxDone)
    /\ [][wfail'.at # wfail.at =>
            /\ sink' = sink
            /\ queue' = queue
            /\ (wpc = "write" => wpc' = "loop")
            /\ (wpc = "drainWrite" => wpc' = "drain")]_vars
    /\ (wfail.at > 0 /\ Waiting) ~> ~Waiting

\* C26 (no stranded entry under a Write/Close race): once the Close call
\* that closed the writer has returned and no Write or Close call is in
\* progress, the queue is empty.
C26_NoStrandedEntry ==
    (/\ FirstCloseReturned
     /\ \A p \in Producers : ppc[p] = "idle"
     /\ \A c \in Closers : cpc[c] = "idle")
        => queue = <<>>

\* C27 (every Close return implies completed shutdown): with two goroutines
\* calling Close, a Close call that has returned finds the worker terminated
\* and every entry enqueued before the first Close delivered.
C27_EveryCloseCompletes ==
    \A c \in Closers :
        (cpc[c] = "idle" /\ cret[c] = "nil") =>
            /\ wpc = "exited"
            /\ \A r \in EnqueuedBeforeClose : Deliveries(r.e) = 1

\* C28 (per-producer order across shutdown): the inner writer receives the
\* entries of one producer in the order of that producer's Write calls.
C28_ProducerOrder ==
    \A i, j \in DOMAIN sink :
        (i < j /\ sink[i].e.p = sink[j].e.p) => sink[i].e.n < sink[j].e.n

\* ------------------------------------------------------ middleware: Chain

\* The longest list of middlewares passed to Chain.
MaxChain == 3

\* The middlewares of TestChain: the handler m(next) appends "m-before",
\* calls next.ServeHTTP and appends "m-after".
MiddlewareNames == {"m1", "m2", "m3"}

ChainLists == UNION {[1 .. n -> MiddlewareNames] : n \in 0 .. MaxChain}

\* An http.Handler is written as the sequence of the middleware closures
\* around a final handler, outermost first, the final handler last.
Handler(h) == <<h>>

\* middlewares[i](next): the handler of middleware m that holds next.
Wrap(m, next) == <<m>> \o next

\* Mutant of ChainLoop: the middlewares are applied first to last.
RECURSIVE ChainLoop_Forward(_, _, _)
ChainLoop_Forward(ms, i, next) ==
    IF i < 1 THEN next
             ELSE ChainLoop_Forward(ms, i - 1, Wrap(ms[Len(ms) + 1 - i], next))

\* Chain, lines 31-33: `for i := len(middlewares) - 1; i >= 0; i--
\* { next = middlewares[i](next) }`, from position i (counted from 1) down.
RECURSIVE ChainLoop(_, _, _)
ChainLoop(ms, i, next) ==
    IF i < 1 THEN next
             ELSE ChainLoop(ms, i - 1, Wrap(ms[i], next))

\* Chain(ms...)(next), lines 27-36.
Chain(ms, next) == ChainLoop(ms, Len(ms), next)

\* wrapped := Chain(ms...)(handler) and a request about to be served by it.
ChainInit ==
    /\ NoAsyncWriter
    /\ NoFacade
    /\ NoTimeout
    /\ NoLoader
    /\ middlewares \in ChainLists
    /\ final = "handler"
    /\ wrapped = Chain(middlewares, Handler(final))
    /\ cur = wrapped
    /\ stack = <<>>
    /\ callOrder = <<>>

\* ServeHTTP of a middleware's handler: its part before next runs and it
\* calls next.ServeHTTP.
ServeBefore ==
    /\ Len(cur) > 1
    /\ callOrder' = Append(callOrder, [m |-> Head(cur), part |-> "before"])
    /\ stack' = Append(stack, Head(cur))
    /\ cur' = Tail(cur)
    /\ UNCHANGED <<middlewares, final, wrapped, loggerVars, timeoutVars, loaderVars>>

\* ServeHTTP of the final handler runs and returns.
ServeFinal ==
    /\ Len(cur) = 1
    /\ callOrder' = Append(callOrder, [m |-> Head(cur), part |-> "handler"])
    /\ cur' = <<>>
    /\ UNCHANGED <<middlewares, final, wrapped, stack, loggerVars, timeoutVars, loaderVars>>

\* next.ServeHTTP has returned to the innermost middleware still running:
\* its part after next runs and its ServeHTTP returns.
ServeAfter ==
    /\ cur = <<>>
    /\ stack # <<>>
    /\ callOrder' = Append(callOrder, [m |-> stack[Len(stack)], part |-> "after"])
    /\ stack' = SubSeq(stack, 1, Len(stack) - 1)
    /\ UNCHANGED <<middlewares, final, wrapped, cur, loggerVars, timeoutVars, loaderVars>>

ChainNext ==
    \/ ServeBefore
    \/ ServeFinal
    \/ ServeAfter

ChainSpec == ChainInit /\ [][ChainNext]_vars

\* The request has been served: wrapped.ServeHTTP has returned.
Served == final # "none" /\ cur = <<>> /\ stack = <<>>

\* The order the claim states for middlewares ms around handler h.
ExpectedOrder(ms, h) ==
    LET n == Len(ms) IN
        [i \in 1 .. (2 * n + 1) |->
            IF i <= n THEN [m |-> ms[i], part |-> "before"]
            ELSE IF i = n + 1 THEN [m |-> h, part |-> "handler"]
            ELSE [m |-> ms[2 * n + 2 - i], part |-> "after"]]

\* C22 (middleware chain order): serving a request through
\* Chain(m1, ..., mn)(h) runs the parts before next of m1, ..., mn in that
\* order, then h, then the parts after next of mn, ..., m1; at every moment
\* the events so far are the beginning of that order; Chain of no
\* middlewares returns h itself.
C22_ChainOrder ==
    LET exp == ExpectedOrder(middlewares, final) IN
        /\ final # "none" =>
            /\ Len(callOrder) <= Len(exp)
            /\ callOrder = SubSeq(exp, 1, Len(callOrder))
        /\ Served => callOrder = exp
        /\ (final # "none" /\ middlewares = <<>>) => wrapped = Handler(final)

\* A request has been served through three different middlewares given in
\* the order m2, m1, m3.
C22_Witness ==
    /\ Served
    /\ middlewares = <<"m2", "m1", "m3">>
    /\ Len(callOrder) = 7
    /\ callOrder[1] = [m |-> "m2", part |-> "before"]
    /\ callOrder[7] = [m |-> "m2", part |-> "after"]

\* ---------------------------------------------------- middleware: Timeout

\* http.StatusRequestTimeout, the default status code of Timeout.
StatusRequestTimeout == 408

\* http.StatusOK, the status code rw.Write sends when no header was written.
StatusOK == 200

\* The most calls of rw.WriteHeader and rw.Write the handler makes.
MaxHandlerCalls == 2

\* The TimeoutConfig of Timeout(d) and of Timeout(d,
\* WithTimeoutMessage("Too slow"), WithTimeoutStatusCode(503)).
TimeoutConfigs ==
    {[StatusCode |-> StatusRequestTimeout, Message |-> "Request timeout"],
     [StatusCode |-> 503, Message |-> "Too slow"]}

\* The status codes the handler passes to rw.WriteHeader.
HandlerCodes == {StatusOK, 500}

\* A call received by the underlying http.ResponseWriter w; late tells that
\* the middleware's ServeHTTP had already returned.
WriteHeaderCall(code, by) ==
    [op |-> "WriteHeader", code |-> code, body |-> "", by |-> by,
     late |-> mpc = "returned"]

WriteCall(b, by) ==
    [op |-> "Write", code |-> 0, body |-> b, by |-> by, late |-> mpc = "returned"]

\* The values the read of rw.wroteHeader on line 66 can give.  The field is
\* written by the handler goroutine (line 102) and read by the goroutine of
\* ServeHTTP with no synchronisation between the two (the channel done is
\* not received from on this path): the read may miss the write.
RacyRead == IF wroteHeader THEN {TRUE, FALSE} ELSE {FALSE}

\* Timeout's handler, lines 41-57: ctx made, done made, rw made, the handler
\* goroutine started; ServeHTTP is at its select.
TimeoutInit ==
    /\ NoAsyncWriter
    /\ NoFacade
    /\ NoChain
    /\ NoLoader
    /\ tcfg \in TimeoutConfigs
    /\ tctx = "live"
    /\ done = 0
    /\ wroteHeader = FALSE
    /\ mpc = "select"
    /\ hpc = "run"
    /\ hcall = NoHCall
    /\ hops = 0
    /\ resp = <<>>
    /\ elapsed = FALSE

\* context.WithTimeout, line 41: cfg.Timeout has passed and ctx is cancelled
\* with DeadlineExceeded.  The history records whether next.ServeHTTP was
\* still running.
DeadlineElapses ==
    /\ tctx = "live"
    /\ tctx' = "deadline"
    /\ elapsed' = (hpc \notin {"send", "exited"})
    /\ UNCHANGED <<tcfg, done, wroteHeader, mpc, hpc, hcall, hops, resp,
                   loggerVars, chainVars, loaderVars>>

\* select, lines 61-63: a value is received from done, ServeHTTP returns and
\* the deferred cancel() runs.
ServeSelectDone ==
    /\ mpc = "select"
    /\ done = 1
    /\ done' = 0
    /\ mpc' = "returned"
    /\ tctx' = IF tctx = "live" THEN "canceled" ELSE tctx
    /\ UNCHANGED <<tcfg, wroteHeader, hpc, hcall, hops, resp, elapsed,
                   loggerVars, chainVars, loaderVars>>

\* select, line 64: ctx.Done() is closed (when both cases are ready Go picks
\* either).
ServeSelectTimeout ==
    /\ mpc = "select"
    /\ tctx # "live"
    /\ mpc' = "check"
    /\ UNCHANGED <<tcfg, tctx, done, wroteHeader, hpc, hcall, hops, resp, elapsed,
                   loggerVars, chainVars, loaderVars>>

\* lines 66-67: `if !rw.wroteHeader`; when the header was seen written
\* ServeHTTP returns, otherwise the Content-Type is set.
ServeCheck ==
    /\ mpc = "check"
    /\ \E seen \in RacyRead : mpc' = IF seen THEN "returned" ELSE "writeHeader"
    /\ UNCHANGED <<tcfg, tctx, done, wroteHeader, hpc, hcall, hops, resp, elapsed,
                   loggerVars, chainVars, loaderVars>>

\* line 68: w.WriteHeader(cfg.StatusCode), on the underlying writer.
ServeWriteHeader ==
    /\ mpc = "writeHeader"
    /\ resp' = Append(resp, WriteHeaderCall(tcfg.StatusCode, "timeout"))
    /\ mpc' = "write"
    /\ UNCHANGED <<tcfg, tctx, done, wroteHeader, hpc, hcall, hops, elapsed,
                   loggerVars, chainVars, loaderVars>>

\* line 69: w.Write([]byte(cfg.Message)), and ServeHTTP returns.
ServeWrite ==
    /\ mpc = "write"
    /\ resp' = Append(resp, WriteCall(tcfg.Message, "timeout"))
    /\ mpc' = "returned"
    /\ UNCHANGED <<tcfg, tctx, done, wroteHeader, hpc, hcall, hops, elapsed,
                   loggerVars, chainVars, loaderVars>>

\* The handler calls rw.WriteHeader(code), lines 100-102: nothing when
\* rw.wroteHeader is set, otherwise the flag is set.
HandlerWriteHeader(code) ==
    /\ hpc = "run"
    /\ hops < MaxHandlerCalls
    /\ hops' = hops + 1
    /\ IF wroteHeader
        THEN UNCHANGED <<wroteHeader, hpc, hcall>>
        ELSE /\ wroteHeader' = TRUE
             /\ hpc' = "header"
             /\ hcall' = [code |-> code, write |-> FALSE]
    /\ UNCHANGED <<tcfg, tctx, done, mpc, resp, elapsed, loggerVars, chainVars, loaderVars>>

\* The handler calls rw.Write(b), lines 107-110: rw.WriteHeader(StatusOK)
\* first when rw.wroteHeader is not set.
HandlerWrite ==
    /\ hpc = "run"
    /\ hops < MaxHandlerCalls
    /\ hops' = hops + 1
    /\ IF wroteHeader
        THEN /\ hpc' = "body"
             /\ hcall' = [code |-> 0, write |-> TRUE]
             /\ UNCHANGED wroteHeader
        ELSE /\ wroteHeader' = TRUE
             /\ hpc' = "header"
             /\ hcall' = [code |-> StatusOK, write |-> TRUE]
    /\ UNCHANGED <<tcfg, tctx, done, mpc, resp, elapsed, loggerVars, chainVars, loaderVars>>

\* line 103: rw.ResponseWriter.WriteHeader(code).
HandlerHeaderCall ==
    /\ hpc = "header"
    /\ resp' = Append(resp, WriteHeaderCall(hcall.code, "handler"))
    /\ hpc' = IF hcall.write THEN "body" ELSE "run"
    /\ UNCHANGED <<tcfg, tctx, done, wroteHeader, mpc, hcall, hops, elapsed,
                   loggerVars, chainVars, loaderVars>>

\* line 111: rw.ResponseWriter.Write(b).
HandlerBodyCall ==
    /\ hpc = "body"
    /\ resp' = Append(resp, WriteCall("body", "handler"))
    /\ hpc' = "run"
    /\ UNCHANGED <<tcfg, tctx, done, wroteHeader, mpc, hcall, hops, elapsed,
                   loggerVars, chainVars, loaderVars>>

\* line 55: next.ServeHTTP returns (of itself or because it saw ctx done).
HandlerReturn ==
    /\ hpc = "run"
    /\ hpc' = "send"
    /\ UNCHANGED <<tcfg, tctx, done, wroteHeader, mpc, hcall, hops, resp, elapsed,
                   loggerVars, chainVars, loaderVars>>

\* line 56: `done <- true` on the channel of capacity 1, and the goroutine
\* ends.
HandlerSend ==
    /\ hpc = "send"
    /\ done < 1
    /\ done' = done + 1
    /\ hpc' = "exited"
    /\ UNCHANGED <<tcfg, tctx, wroteHeader, mpc, hcall, hops, resp, elapsed,
                   loggerVars, chainVars, loaderVars>>

TimeoutNext ==
    \/ DeadlineElapses
    \/ ServeSelectDone
    \/ ServeSelectTimeout
    \/ ServeCheck
    \/ ServeWriteHeader
    \/ ServeWrite
    \/ \E code \in HandlerCodes : HandlerWriteHeader(code)
    \/ HandlerWrite
    \/ HandlerHeaderCall
    \/ HandlerBodyCall
    \/ HandlerReturn
    \/ HandlerSend

TimeoutSpec == TimeoutInit /\ [][TimeoutNext]_vars

\* The WriteHeader calls the underlying writer received.
HeaderCalls == {i \in DOMAIN resp : resp[i].op = "WriteHeader"}

\* The status code of the response (w.Code of the test's recorder): the code
\* of the first WriteHeader call, the later ones being ignored, and
\* http.StatusOK when WriteHeader was not called.
ClientStatus ==
    IF HeaderCalls = {} THEN StatusOK
    ELSE resp[CHOOSE i \in HeaderCalls : \A j \in HeaderCalls : i <= j].code

\* C23 (timeout response): when the deadline passed while the wrapped
\* handler had not finished, then once ServeHTTP has returned the handler's
\* context is cancelled and the client has been sent the configured status
\* code and message.
C23_TimeoutResponse ==
    (mpc = "returned" /\ elapsed) =>
        /\ tctx # "live"
        /\ ClientStatus = tcfg.StatusCode
        /\ \E i \in DOMAIN resp : resp[i].op = "Write" /\ resp[i].body = tcfg.Message

\* C30 (the response is written once): the underlying ResponseWriter
\* receives at most one WriteHeader call for the request, and no call at all
\* once the middleware's ServeHTTP has returned.
C30_ResponseWrittenOnce ==
    /\ Cardinality(HeaderCalls) <= 1
    /\ \A i \in DOMAIN resp : ~resp[i].late

\* ------------------------------------------------------ config: loader.Load

\* The struct of ExampleLoader_priority, in the order of its fields:
\*   Host string `config:"env=APP_HOST,default=..."`
\*   Port int    `config:"env=APP_PORT,default=..."`
FieldOrder == <<"Host", "Port">>

FieldNames == {"Host", "Port"}

\* reflect.Kind of the fields.
Kind(f) == IF f = "Host" THEN "string" ELSE "int"

\* A Go string is written as the sequence of its characters, "" as <<>>.
\* The zero value of a field.
Zero(f) == IF Kind(f) = "string" THEN <<>> ELSE 0

\* The struct `var cfg AppConfig`.
ZeroStruct == [f \in FieldNames |-> Zero(f)]

\* isZeroValue, lines 286-303, for the kinds string and int.
isZeroValue(f, v) == IF Kind(f) = "string" THEN v = <<>> ELSE v = 0

\* The decimal digits, Digits[i] being the digit of value i - 1.
Digits == <<"0", "1", "2", "3", "4", "5", "6", "7", "8", "9">>

IsDigit(c) == \E i \in DOMAIN Digits : Digits[i] = c

DigitValue(c) == (CHOOSE i \in DOMAIN Digits : Digits[i] = c) - 1

\* The digits without their leading zeros.
RECURSIVE DropZeros(_)
DropZeros(ds) ==
    IF ds # <<>> /\ Head(ds) = "0" THEN DropZeros(Tail(ds)) ELSE ds

\* Of two digit sequences of one length, a is the greater number.
RECURSIVE Greater(_, _)
Greater(a, b) ==
    IF a = <<>> THEN FALSE
    ELSE IF Head(a) # Head(b) THEN DigitValue(Head(a)) > DigitValue(Head(b))
    ELSE Greater(Tail(a), Tail(b))

\* The number the digits ds write after acc.
RECURSIVE Decimal(_, _)
Decimal(ds, acc) ==
    IF ds = <<>> THEN acc ELSE Decimal(Tail(ds), 10 * acc + DigitValue(Head(ds)))

\* 1<<63 - 1 and 1<<63, the largest magnitudes of a positive and of a
\* negative int64.
MaxInt64 == <<"9", "2", "2", "3", "3", "7", "2", "0", "3", "6", "8", "5", "4", "7", "7", "5", "8", "0", "7">>

MinInt64Magnitude == <<"9", "2", "2", "3", "3", "7", "2", "0", "3", "6", "8", "5", "4", "7", "7", "5", "8", "0", "8">>

\* strconv.ParseInt(s, 10, 64): an optional sign and one or more decimal
\* digits; a syntax error for anything else, a range error for a value that
\* does not fit in 64 bits.  On an error setFieldValue uses no value.
ParseInt(s) ==
    LET neg == s # <<>> /\ Head(s) = "-"
        ds == IF s # <<>> /\ Head(s) \in {"+", "-"} THEN Tail(s) ELSE s
        sig == DropZeros(ds)
        lim == IF neg THEN MinInt64Magnitude ELSE MaxInt64
    IN  IF ds = <<>> \/ \E i \in DOMAIN ds : ~IsDigit(ds[i])
            THEN [ok |-> FALSE, v |-> 0]
        ELSE IF Len(sig) > Len(lim) \/ (Len(sig) = Len(lim) /\ Greater(sig, lim))
            THEN [ok |-> FALSE, v |-> 0]
        ELSE [ok |-> TRUE, v |-> IF neg THEN 0 - Decimal(sig, 0) ELSE Decimal(sig, 0)]

\* setFieldValue, lines 145-182 and 246-283: the string as it is for a
\* string field, parsed for an int field.
setFieldValue(f, s) ==
    IF Kind(f) = "string" THEN [ok |-> TRUE, v |-> s] ELSE ParseInt(s)

\* The result of loading a struct: the struct and whether no error occurred.
Loaded(t, ok) == [t |-> t, ok |-> ok]

\* DefaultSource.loadStruct, lines 209-240, from field i on: a field that
\* is not zero is skipped, a default that is not empty is set; the first
\* error ends the loop.
RECURSIVE DefaultLoadStruct(_, _, _)
DefaultLoadStruct(t, tg, i) ==
    IF i > Len(FieldOrder) THEN Loaded(t, TRUE)
    ELSE LET f == FieldOrder[i] IN
        IF ~isZeroValue(f, t[f]) \/ tg[f] = <<>>
            THEN DefaultLoadStruct(t, tg, i + 1)
            ELSE LET r == setFieldValue(f, tg[f]) IN
                IF r.ok THEN DefaultLoadStruct([t EXCEPT ![f] = r.v], tg, i + 1)
                        ELSE Loaded(t, FALSE)

\* The strings of the examples and tests.
FileHost == <<"f", "i", "l", "e", "-", "h", "o", "s", "t">>

EnvHost == <<"e", "n", "v", "-", "h", "o", "s", "t">>

Localhost == <<"l", "o", "c", "a", "l", "h", "o", "s", "t">>

\* The file names of the tests; <<>> is no file configured.
ConfigYaml == <<"c", "o", "n", "f", "i", "g", ".", "y", "a", "m", "l">>

ConfigJson == <<"c", "o", "n", "f", "i", "g", ".", "j", "s", "o", "n">>

ConfigTxt == <<"c", "o", "n", "f", "i", "g", ".", "t", "x", "t">>

FilePaths == {<<>>, ConfigYaml, ConfigJson, ConfigTxt}

\* The letters, Lower[i] being the lower case of Upper[i].
Upper == <<"A", "B", "C", "D", "E", "F", "G", "H", "I", "J", "K", "L", "M", "N", "O", "P", "Q", "R", "S", "T", "U", "V", "W", "X", "Y", "Z">>

Lower == <<"a", "b", "c", "d", "e", "f", "g", "h", "i", "j", "k", "l", "m", "n", "o", "p", "q", "r", "s", "t", "u", "v", "w", "x", "y", "z">>

\* strings.ToLower, for the ASCII letters.
ToLower(str) ==
    [i \in DOMAIN str |->
        IF \E k \in DOMAIN Upper : Upper[k] = str[i]
            THEN Lower[CHOOSE k \in DOMAIN Upper : Upper[k] = str[i]]
            ELSE str[i]]

\* filepath.Ext: the suffix of the path from the last dot of its last
\* element on, "" if that element has no dot; the loop from position i down.
RECURSIVE ExtFrom(_, _)
ExtFrom(path, i) ==
    IF i < 1 \/ path[i] = "/" THEN <<>>
    ELSE IF path[i] = "." THEN SubSeq(path, i, Len(path))
    ELSE ExtFrom(path, i - 1)

Ext(path) == ExtFrom(path, Len(path))

\* strings.TrimPrefix(str, ".").
TrimDot(str) == IF str # <<>> /\ Head(str) = "." THEN Tail(str) ELSE str

\* DetectFormat, decoder.go lines 58-68: the format the extension names.
DetectFormat(filename) ==
    LET ext == ToLower(TrimDot(Ext(filename))) IN
        IF ext \in {<<"y", "a", "m", "l">>, <<"y", "m", "l">>} THEN "yaml"
        ELSE IF ext = <<"j", "s", "o", "n">> THEN "json"
        ELSE "unknown"

\* The keys of a file that sets no field.
NoKeys == [f \in FieldNames |-> [set |-> FALSE, fits |-> TRUE, value |-> Zero(f)]]

\* A file that does not exist, and one that exists and cannot be opened.
NoFile == [exists |-> FALSE, readable |-> FALSE, doc |-> "none",
           Host |-> NoKeys["Host"], Port |-> NoKeys["Port"]]

Unreadable == [NoFile EXCEPT !.exists = TRUE]

\* A mapping with each key absent, present with a value, or present with
\* the zero value; the key of the int field may also hold a value that is
\* no integer.
Mappings ==
    {[exists |-> TRUE, readable |-> TRUE, doc |-> "mapping", Host |-> h, Port |-> p] :
        h \in {NoKeys["Host"], [set |-> TRUE, fits |-> TRUE, value |-> FileHost],
               [set |-> TRUE, fits |-> TRUE, value |-> <<>>]},
        p \in {NoKeys["Port"], [set |-> TRUE, fits |-> TRUE, value |-> 2000],
               [set |-> TRUE, fits |-> TRUE, value |-> 0],
               [set |-> TRUE, fits |-> FALSE, value |-> 0]}}

\* The file at FilePath: missing, not readable, or holding (doc) no
\* document at all (a file of zero bytes, or of comments only), a mapping of
\* keys to values, or a text that is no document of the format.
Files ==
    {NoFile, Unreadable} \cup Mappings
        \cup {[Unreadable EXCEPT !.readable = TRUE, !.doc = d] : d \in {"none", "invalid"}}

\* An error is written as the messages it wraps, outermost first; nil as
\* the empty sequence.
Nil == <<>>

\* fmt.Errorf(msg + ": %w", err) on the error path `if err != nil`.
Errorf(msg, err) == IF err = Nil THEN Nil ELSE <<msg>> \o err

\* The result of a decoder: the struct and the error.
Decoded(t, err) == [t |-> t, err |-> err]

\* yamlDecoder.Decode and jsonDecoder.Decode, decoder.go lines 40-42 and
\* 53-55, decoding into the struct passed in: io.EOF for a file with no
\* document and a syntax error for an invalid one, with nothing assigned;
\* for a mapping the fields whose keys the file holds are assigned, the
\* others left as they are, and a key whose value does not fit its field is
\* skipped and reported by a type error once the others are assigned.
Decode(t, fl) ==
    IF fl.doc = "none" THEN Decoded(t, <<"EOF">>)
    ELSE IF fl.doc = "invalid" THEN Decoded(t, <<"syntax error">>)
    ELSE Decoded([f \in FieldNames |-> IF fl[f].set /\ fl[f].fits THEN fl[f].value ELSE t[f]],
                 IF \E f \in FieldNames : fl[f].set /\ ~fl[f].fits
                    THEN <<"type error">> ELSE Nil)

\* DecodeFile, decoder.go lines 84-106: os.Open, DetectFormat, NewDecoder
\* (which has a decoder for both known formats) and Decode, each error
\* returned under its own message.
DecodeFile(t, path, fl) ==
    IF ~fl.readable THEN Decoded(t, Errorf("open file", <<"permission denied">>))
    ELSE IF DetectFormat(path) = "unknown" THEN Decoded(t, <<"unknown file format">>)
    ELSE LET d == Decode(t, fl) IN Decoded(d.t, Errorf("decode file", d.err))

\* FileSource.Load, part_001 lines 27-37: no path is no error, a file that
\* does not exist is one, otherwise what DecodeFile returns.
FileLoad(t, path, fl) ==
    IF path = <<>> THEN Decoded(t, Nil)
    ELSE IF ~fl.exists THEN Decoded(t, <<"file not found">>)
    ELSE DecodeFile(t, path, fl)

\* Mutant of EnvApplies: a variable is used only for a field that is still
\* zero.
EnvApplies_OnlyZero(t, f, envValue) == envValue # <<>> /\ isZeroValue(f, t[f])

\* EnvSource.loadStruct, lines 95-98: `if envValue == "" { continue }`.
EnvApplies(t, f, envValue) == envValue # <<>>

\* EnvSource.loadStruct, lines 66-104, from field i on: os.Getenv of the
\* field's key; an empty value is skipped, any other is set; the first
\* error ends the loop.
RECURSIVE EnvLoadStruct(_, _, _)
EnvLoadStruct(t, env, i) ==
    IF i > Len(FieldOrder) THEN Loaded(t, TRUE)
    ELSE LET f == FieldOrder[i] IN
        IF ~EnvApplies(t, f, env[f])
            THEN EnvLoadStruct(t, env, i + 1)
            ELSE LET r == setFieldValue(f, env[f]) IN
                IF r.ok THEN EnvLoadStruct([t EXCEPT ![f] = r.v], env, i + 1)
                        ELSE Loaded(t, FALSE)

\* The environment: each variable unset (or empty), set to a value of the
\* field's kind, or, for the int field, set to a string that is no integer.
Environments ==
    {[Host |-> h, Port |-> p] :
        h \in {<<>>, EnvHost},
        p \in {<<>>, <<"3", "0", "0", "0">>, <<"-", "1">>, <<"a", "b", "c">>}}

\* The default options of the tags.
TagDefaults ==
    {[Host |-> h, Port |-> p] :
        h \in {<<>>, Localhost},
        p \in {<<>>, <<"8", "0", "8", "0">>, <<"a", "b", "c">>}}

\* loader.Load(&cfg) is called with `var cfg AppConfig`.
LoaderInit ==
    /\ NoAsyncWriter
    /\ NoFacade
    /\ NoChain
    /\ NoTimeout
    /\ lconf \in [FilePath : FilePaths, ValidateAfterLoad : BOOLEAN]
    /\ environ \in Environments
    /\ file \in Files
    /\ lconf.FilePath = <<>> => file = NoFile
    /\ tags \in TagDefaults
    /\ target = ZeroStruct
    /\ lpc = "defaults"
    /\ lerr = <<>>

\* Load, lines 49-51: l.SetDefaults(cfg).
LoadSetDefaults ==
    /\ lpc = "defaults"
    /\ LET r == DefaultLoadStruct(target, tags, 1) IN
        /\ target' = r.t
        /\ lpc' = IF r.ok THEN "file" ELSE "returned"
        /\ lerr' = IF r.ok THEN <<>> ELSE <<"set defaults">>
    /\ UNCHANGED <<lconf, environ, file, tags, loggerVars, chainVars, timeoutVars>>

\* Load, lines 54-58: l.LoadFromFile when FilePath is not empty, its error
\* returned as "load from file: ...".
LoadFromFile ==
    /\ lpc = "file"
    /\ LET r == IF lconf.FilePath # <<>> THEN FileLoad(target, lconf.FilePath, file)
                                         ELSE Decoded(target, Nil) IN
        /\ target' = r.t
        /\ lpc' = IF r.err = Nil THEN "env" ELSE "returned"
        /\ lerr' = Errorf("load from file", r.err)
    /\ UNCHANGED <<lconf, environ, file, tags, loggerVars, chainVars, timeoutVars>>

\* Load, lines 61-63: l.LoadFromEnv(cfg).
LoadFromEnv ==
    /\ lpc = "env"
    /\ LET r == EnvLoadStruct(target, environ, 1) IN
        /\ target' = r.t
        /\ lpc' = IF r.ok THEN "validate" ELSE "returned"
        /\ lerr' = IF r.ok THEN <<>> ELSE <<"load from env">>
    /\ UNCHANGED <<lconf, environ, file, tags, loggerVars, chainVars, timeoutVars>>

\* Load, lines 66-73: ValidateStruct(cfg) when ValidateAfterLoad is set (it
\* reads the struct and accepts it or not), and Load returns.
LoadValidate ==
    /\ lpc = "validate"
    /\ lpc' = "returned"
    /\ \E valid \in (IF lconf.ValidateAfterLoad THEN BOOLEAN ELSE {TRUE}) :
        lerr' = IF valid THEN <<>> ELSE <<"validation failed">>
    /\ UNCHANGED <<lconf, environ, file, tags, target, loggerVars, chainVars, timeoutVars>>

LoaderNext ==
    \/ LoadSetDefaults
    \/ LoadFromFile
    \/ LoadFromEnv
    \/ LoadValidate

LoaderSpec == LoaderInit /\ [][LoaderNext]_vars

\* Load has returned nil.
LoadedNil == lpc = "returned" /\ lerr = Nil

\* The file sets field f.
FileSets(f) ==
    /\ lconf.FilePath # <<>>
    /\ file.doc = "mapping"
    /\ file[f].set
    /\ file[f].fits

\* The value the priority rule gives field f.
ByPriority(f) ==
    IF environ[f] # <<>> THEN setFieldValue(f, environ[f]).v
    ELSE IF FileSets(f) THEN file[f].value
    ELSE IF tags[f] # <<>> THEN setFieldValue(f, tags[f]).v
    ELSE Zero(f)

\* C24 (config source priority): after loader.Load has returned nil, each
\* field holds the value of its environment variable when that is set to a
\* non-empty string, otherwise the file's value when the file sets the
\* field, otherwise the tag's default, otherwise its zero value; and once the
\* environment has been loaded, no later step changes a field.
C24_SourcePriority ==
    /\ [](LoadedNil => \A f \in FieldNames : target[f] = ByPriority(f))
    /\ [][lpc = "validate" => target' = target]_vars
    /\ [][\A f \in FieldNames :
            (lpc = "file" /\ lpc' = "env" /\ ~FileSets(f)) => target'[f] = target[f]]_vars

\* Load returned nil with Host taken from the environment over the file and
\* the default, and Port set to zero by the file over a default of 8080.
C24_Witness ==
    /\ LoadedNil
    /\ environ["Host"] = EnvHost
    /\ FileSets("Host")
    /\ file["Host"].value = FileHost
    /\ tags["Host"] = Localhost
    /\ target["Host"] = EnvHost
    /\ environ["Port"] = <<>>
    /\ FileSets("Port")
    /\ file["Port"].value = 0
    /\ tags["Port"] = <<"8", "0", "8", "0">>
    /\ target["Port"] = 0

====
